---- MODULE Spec2Model ----
(***************************************************************************)
(* A model of src/vector.h: RawMemory<T> (raw storage) and Vector<T>      *)
(* (the first size_ cells of the buffer hold live elements).              *)
(*                                                                         *)
(* A cell of a buffer is RAW (no live object) or holds a value 0..MaxVal. *)
(* The element type T is abstracted by its traits (variable kind):        *)
(*   nothrowMove  std::is_nothrow_move_constructible_v<T>; a throwing     *)
(*                type may also throw from its move assignment            *)
(*   copyable     std::is_copy_constructible_v<T>                         *)
(*   moveResets   a move leaves its source holding MovedFrom (as          *)
(*                std::string does) instead of its old value              *)
(* Exceptions are injected by a countdown fc: the fc-th throwing-capable  *)
(* step of an operation throws (fc = 0: nothing throws).                  *)
(* live is the live-object counter of an instrumented T: constructions    *)
(* minus destructions.                                                     *)
(*                                                                         *)
(* Spec and SpecGrowth drive one Vector; SpecPair adds a second Vector     *)
(* (copy and move construction and assignment, Swap); SpecSelfRef passes   *)
(* references to the Vector's own elements as arguments; SpecRaw drives    *)
(* RawMemory objects on their own.                                         *)
(***************************************************************************)
EXTENDS Integers, Sequences, FiniteSets, TLC

VARIABLES
    kind,    \* the traits of the element type T
    alive,   \* the Vector object exists (constructed, not yet destroyed)
    data,    \* data_: the cells of the buffer, Len(data) = data_.Capacity()
    addr,    \* data_.GetAddress(): the block's address, NullAddr for nullptr
    size,    \* size_
    live,    \* the live-object counter of T: constructions minus destructions
    ub,      \* a call executed undefined behaviour
    s1,      \* so far: Vector(), then PushBack(0), PushBack(1), ... all returned
    last,    \* the last call: the operation, how it ended, the branch it took
    other,   \* a second Vector: whether it exists, its data_ and size_
    raw,     \* RawMemory objects used on their own: buffer_, capacity_
    blocks   \* per address: allocated by operator new, times operator delete'd

vars == <<kind, alive, data, addr, size, live, ub, s1, last, other, raw, blocks>>

\* ---------------------------------------------------------------- bounds
MaxCap == 4
S1Cap == 16
MaxVal == 1
PairCap == 2
NumObj == 2
NumBlocks == 2
RawCap == 1

\* ------------------------------------------------------------ primitives
RAW == -1
MovedFrom == 0
DefaultVal == 0
\* Addresses are kept up to renaming: nullptr, the block data_ owns when a
\* call starts, and the block the call allocates.
NullAddr == 0
DataAddr == 1
FreshAddr == 2
OtherAddr == 3

Val == 0..MaxVal
\* A type with a nothrow move constructor is relocated by moves whether or
\* not it can be copied, so only one of the two is kept.
Kinds == {k \in [nothrowMove : BOOLEAN, copyable : BOOLEAN, moveResets : BOOLEAN] :
             k.nothrowMove => k.copyable}

Max(a, b) == IF a >= b THEN a ELSE b

RawCells(n) == [i \in 1..n |-> RAW]

\* cell i (0-based) of a buffer; reading outside the block yields RAW
Get(buf, i) == IF i >= 0 /\ i < Len(buf) THEN buf[i + 1] ELSE RAW
Put(buf, i, v) == IF i >= 0 /\ i < Len(buf) THEN [buf EXCEPT ![i + 1] = v] ELSE buf

LiveCells(buf) == Cardinality({i \in 1..Len(buf) : buf[i] # RAW})

\* a returned pointer: the address of a block and a cell index in it
NoRet == [a |-> NullAddr, i |-> -1]

\* the members of a Vector: data_ (cells and address) and size_
Members(buf, a, sz) == [data |-> buf, addr |-> a, size |-> sz]
\* Vector() = default: data_ in the null state, size_ = 0
Empty == Members(<<>>, NullAddr, 0)

\* The run record threaded through the steps of one operation:
\*   data/addr/size  the Vector's data_ (cells, address) and size_
\*   tmp/taddr       the local RawMemory (fresh buffer) of the operation
\*   k               traits of T;  g  the value an undefined read yields
\*   thrown/failed   an exception is propagating, and which step threw
\*   lost            live cells in a buffer at the time it was deallocated
\*   ub              a step with undefined behaviour was executed
\*   other           the members of the Vector passed as the argument
Run(k, buf, a, sz, lv, fc, g) ==
    [k |-> k, data |-> buf, addr |-> a, size |-> sz, tmp |-> <<>>, taddr |-> NullAddr,
     live |-> lv, fc |-> fc, g |-> g, thrown |-> FALSE, failed |-> "none",
     lost |-> 0, ub |-> FALSE, ret |-> NoRet, path |-> "none", other |-> Empty]

Buf(r, b) == IF b = "tmp" THEN r.tmp ELSE r.data
SetBuf(r, b, cells) == IF b = "tmp" THEN [r EXCEPT !.tmp = cells] ELSE [r EXCEPT !.data = cells]

WillThrow(r, canThrow) == canThrow /\ r.fc = 1
Throw(r, what) == [r EXCEPT !.thrown = TRUE, !.failed = what, !.fc = 0]
Passed(r, canThrow) == IF canThrow /\ r.fc > 0 THEN [r EXCEPT !.fc = @ - 1] ELSE r

\* the value read from cell i: an undefined read of a raw cell yields r.g
ReadVal(r, b, i) == IF Get(Buf(r, b), i) = RAW THEN r.g ELSE Get(Buf(r, b), i)
ReadUB(r, b, i) == Get(Buf(r, b), i) = RAW

AfterMove(r, v) == IF r.k.moveResets THEN MovedFrom ELSE v

\* RawMemory(size_t capacity) and Allocate
Allocate(r, n) ==
    IF r.thrown THEN r
    ELSE IF WillThrow(r, n # 0) THEN Throw(r, "alloc")
    ELSE [Passed(r, n # 0) EXCEPT !.tmp = RawCells(n),
                                  !.taddr = IF n # 0 THEN FreshAddr ELSE NullAddr]

\* ~RawMemory of the local buffer: Deallocate, whatever the cells hold
Release(r) == [r EXCEPT !.lost = @ + LiveCells(r.tmp), !.tmp = <<>>, !.taddr = NullAddr]

\* RawMemory::Swap of data_ with the local buffer
SwapBuffers(r) ==
    IF r.thrown THEN r
    ELSE [r EXCEPT !.data = r.tmp, !.addr = r.taddr, !.tmp = r.data, !.taddr = r.addr]

\* The argument of a construction is a value of T, or a reference to the
\* element in cell i of the Vector itself (const T& value = s[i]), which is
\* read when the constructor runs.
Ref(i) == RAW - 1 - i
IsRef(v) == v < RAW
RefIndex(v) == RAW - 1 - v
ArgVal(r, v) == IF IsRef(v) THEN ReadVal(r, "data", RefIndex(v)) ELSE v

\* new (p) T(args...): construct the value of argument v in cell i of buffer b
ConstructAt(r, b, i, v) ==
    IF r.thrown THEN r
    ELSE IF WillThrow(r, TRUE) THEN Throw(r, "ctor")
    ELSE [SetBuf(Passed(r, TRUE), b, Put(Buf(r, b), i, ArgVal(r, v))) EXCEPT
             !.live = @ + 1,
             !.ub = @ \/ (IsRef(v) /\ ReadUB(r, "data", RefIndex(v)))]

\* std::destroy_n(first, n) on buffer b (runs in handlers too, so it does
\* not look at thrown); destroying a raw cell is undefined
RECURSIVE DestroyN(_, _, _, _)
DestroyN(r, b, first, n) ==
    IF n <= 0 THEN r
    ELSE DestroyN([SetBuf(r, b, Put(Buf(r, b), first, RAW)) EXCEPT
                      !.live = @ - 1,
                      !.ub = @ \/ ReadUB(r, b, first)],
                  b, first + 1, n - 1)

Destroy(r, b, first, n) == IF r.thrown THEN r ELSE DestroyN(r, b, first, n)

\* one element copy-constructed from data cell src into tmp cell dst
CopyOne(r, src, dst) ==
    [Passed(r, TRUE) EXCEPT !.tmp = Put(r.tmp, dst, ReadVal(r, "data", src)),
                            !.live = @ + 1,
                            !.ub = @ \/ ReadUB(r, "data", src)]

\* (mutant) the moved element is read after its source was moved from
MoveOneReadsAfterMove(r, src, dst) ==
    [Passed(r, ~r.k.nothrowMove) EXCEPT
        !.tmp = Put(r.tmp, dst, AfterMove(r, ReadVal(r, "data", src))),
        !.data = Put(r.data, src, AfterMove(r, ReadVal(r, "data", src))),
        !.live = @ + 1,
        !.ub = @ \/ ReadUB(r, "data", src)]

\* one element move-constructed from data cell src into tmp cell dst
MoveOne(r, src, dst) ==
    [Passed(r, ~r.k.nothrowMove) EXCEPT
        !.tmp = Put(r.tmp, dst, ReadVal(r, "data", src)),
        !.data = Put(r.data, src, AfterMove(r, ReadVal(r, "data", src))),
        !.live = @ + 1,
        !.ub = @ \/ ReadUB(r, "data", src)]

\* std::uninitialized_copy_n(data + first, n, tmp + out); j cells are done.
\* When a copy throws, the algorithm destroys the copies it has made.
RECURSIVE UninitCopyFrom(_, _, _, _, _)
UninitCopyFrom(r, first, n, out, j) ==
    IF r.thrown \/ j >= n THEN r
    ELSE IF WillThrow(r, TRUE) THEN Throw(DestroyN(r, "tmp", out, j), "copy")
    ELSE UninitCopyFrom(CopyOne(r, first + j, out + j), first, n, out, j + 1)

UninitializedCopyN(r, first, n, out) == UninitCopyFrom(r, first, n, out, 0)

\* std::uninitialized_move_n(data + first, n, tmp + out); j cells are done.
\* A throwing move leaves its own source as it was; the sources already
\* moved stay moved-from.
RECURSIVE UninitMoveFrom(_, _, _, _, _)
UninitMoveFrom(r, first, n, out, j) ==
    IF r.thrown \/ j >= n THEN r
    ELSE IF WillThrow(r, ~r.k.nothrowMove) THEN Throw(DestroyN(r, "tmp", out, j), "move")
    ELSE UninitMoveFrom(MoveOne(r, first + j, out + j), first, n, out, j + 1)

UninitializedMoveN(r, first, n, out) == UninitMoveFrom(r, first, n, out, 0)

\* std::uninitialized_value_construct_n(data + first, n); j cells are done
RECURSIVE ValueConstructFrom(_, _, _, _)
ValueConstructFrom(r, first, n, j) ==
    IF r.thrown \/ j >= n THEN r
    ELSE IF WillThrow(r, TRUE) THEN Throw(DestroyN(r, "data", first, j), "ctor")
    ELSE ValueConstructFrom(
             [Passed(r, TRUE) EXCEPT !.data = Put(r.data, first + j, DefaultVal),
                                     !.live = @ + 1],
             first, n, j + 1)

UninitializedValueConstructN(r, first, n) == ValueConstructFrom(r, first, n, 0)

\* data[to] = std::move(data[from]): both cells must hold live objects
MoveAssign(r, to, from) ==
    [Passed(r, ~r.k.nothrowMove) EXCEPT
        !.data = Put(Put(r.data, to, ReadVal(r, "data", from)),
                     from, AfterMove(r, ReadVal(r, "data", from))),
        !.ub = @ \/ ReadUB(r, "data", from) \/ ReadUB(r, "data", to)]

\* std::move_backward(data + first, data + lst, data + dlast): the last
\* element first, data[dlast-1] = move(data[lst-1]), down to data[first]
RECURSIVE MoveBackward(_, _, _, _)
MoveBackward(r, first, lst, dlast) ==
    IF r.thrown \/ lst <= first THEN r
    ELSE IF WillThrow(r, ~r.k.nothrowMove) THEN Throw(r, "assign")
    ELSE MoveBackward(MoveAssign(r, dlast - 1, lst - 1), first, lst - 1, dlast - 1)

\* std::move(data + first, data + lst, data + dfirst), front to back
RECURSIVE MoveRange(_, _, _, _)
MoveRange(r, first, lst, dfirst) ==
    IF r.thrown \/ lst <= first THEN r
    ELSE IF WillThrow(r, ~r.k.nothrowMove) THEN Throw(r, "assign")
    ELSE MoveRange(MoveAssign(r, dfirst, first), first + 1, lst, dfirst + 1)

\* Vector::__CopyMoveConstruct(data, tmp, n): the relocation policy
UsesMove(k) == k.nothrowMove \/ ~k.copyable

\* (mutant) the relocation moves whatever the traits of T are
CopyMoveConstructAlwaysMoves(r, n) == UninitializedMoveN(r, 0, n, 0)

CopyMoveConstruct(r, n) ==
    IF UsesMove(r.k) THEN UninitializedMoveN(r, 0, n, 0)
                     ELSE UninitializedCopyN(r, 0, n, 0)

\* (mutant) the buffer grows by one cell
GrowCapacityByOne(sz) == sz + 1

\* the capacity of the fresh buffer of a growing insert
GrowCapacity(sz) == IF sz = 0 THEN 1 ELSE sz * 2

Capacity(r) == Len(r.data)
\* -------------------------------------------------- Vector's operations
\* Each takes the run record at entry and yields the run record at exit
\* (return or propagating exception), the local buffer released.

IncSize(r) == IF r.thrown THEN r ELSE [r EXCEPT !.size = @ + 1]
\* p = new (buffer + i) T(args...): the construction, and the pointer kept
PlaceNew(r, b, i, v) ==
    LET c == ConstructAt(r, b, i, v)
    IN  IF r.thrown \/ c.thrown THEN c
        ELSE [c EXCEPT !.ret = [a |-> IF b = "tmp" THEN r.taddr ELSE r.addr, i |-> i]]
OnPath(r, p) == [r EXCEPT !.path = p]

\* (mutant) the early return compares with < instead of <=
ReserveStrict(r, n) ==
    IF n < Capacity(r) THEN r
    ELSE LET r1 == Allocate(OnPath(r, "realloc"), n)
             r2 == CopyMoveConstruct(r1, r.size)
             r3 == Destroy(r2, "data", 0, r.size)
             r4 == SwapBuffers(r3)
         IN  Release(r4)

\* void Reserve(size_t new_capacity)
Reserve(r, n) ==
    IF n <= Capacity(r) THEN r
    ELSE LET r1 == Allocate(OnPath(r, "realloc"), n)
             r2 == CopyMoveConstruct(r1, r.size)
             r3 == Destroy(r2, "data", 0, r.size)
             r4 == SwapBuffers(r3)
         IN  Release(r4)

\* void PopBack() noexcept
PopBack(r) ==
    IF r.thrown THEN r
    ELSE IF r.size > 0
         THEN [DestroyN(r, "data", r.size - 1, 1) EXCEPT !.size = @ - 1]
         ELSE r

\* (mutant) a shrinking Resize leaves the tail constructed
ResizeKeepsTail(r, n) ==
    LET r1 == Reserve(r, n)
        r2 == IF r1.size < n /\ ~r1.thrown
              THEN UninitializedValueConstructN(r1, r1.size, n - r1.size)
              ELSE r1
    IN  IF r2.thrown THEN r2 ELSE [r2 EXCEPT !.size = n]

\* void Resize(size_t new_size)
Resize(r, n) ==
    LET r1 == Reserve(r, n)
        r2 == IF r1.size > n THEN Destroy(r1, "data", n, r1.size - n)
              ELSE IF r1.size < n
                   THEN IF r1.thrown THEN r1
                        ELSE UninitializedValueConstructN(r1, r1.size, n - r1.size)
                   ELSE r1
    IN  IF r2.thrown THEN r2 ELSE [r2 EXCEPT !.size = n]

\* T& EmplaceBack(Args&&... args); v is the value T(args...) constructs
EmplaceBack(r, v) ==
    LET grown ==
            LET r1 == Allocate(OnPath(r, "realloc"), GrowCapacity(r.size))
                r2 == PlaceNew(r1, "tmp", r.size, v)
                r3 == CopyMoveConstruct(r2, r.size)
                r4 == Destroy(r3, "data", 0, r.size)
                r5 == SwapBuffers(r4)
            IN  Release(r5)
        inplace == PlaceNew(OnPath(r, "inplace"), "data", r.size, v)
        r6 == IF r.size = Capacity(r) THEN grown ELSE inplace
    IN  IncSize(r6)

\* the reallocating branch of Emplace
EmplaceGrow(r, d, v) ==
    LET r1 == Allocate(OnPath(r, "realloc"), GrowCapacity(r.size))
        r2 == PlaceNew(r1, "tmp", d, v)
        r3 == IF UsesMove(r.k)
              THEN UninitializedMoveN(UninitializedMoveN(r2, 0, d, 0),
                                      d, r.size - d, d + 1)
              ELSE LET c == UninitializedCopyN(UninitializedCopyN(r2, 0, d, 0),
                                               d, r.size - d, d + 1)
                   IN  IF c.thrown /\ ~r2.thrown
                       THEN DestroyN(c, "tmp", d, 1)       \* catch (...) { ...; throw; }
                       ELSE c
        r4 == Destroy(r3, "data", 0, r.size)
        r5 == SwapBuffers(r4)
    IN  Release(r5)

\* (mutant) the shift of the tail has no handler
EmplaceInPlaceNoHandler(r, d, v) ==
    LET r0 == OnPath(r, "inplace")
        shifted ==
            LET m == IF WillThrow(r0, ~r0.k.nothrowMove) THEN Throw(r0, "move")
                     ELSE [Passed(r0, ~r0.k.nothrowMove) EXCEPT
                              !.data = Put(Put(r0.data, r0.size, ReadVal(r0, "data", r0.size - 1)),
                                           r0.size - 1,
                                           AfterMove(r0, ReadVal(r0, "data", r0.size - 1))),
                              !.live = @ + 1,
                              !.ub = @ \/ ReadUB(r0, "data", r0.size - 1)]
            IN  Destroy(MoveBackward(m, d, r0.size, r0.size + 1), "data", d, 1)
        r1 == IF r0.size # 0 THEN shifted ELSE r0
    IN  PlaceNew(r1, "data", d, v)

\* the in-place branch of Emplace
EmplaceInPlace(r, d, v) ==
    LET r0 == OnPath(r, "inplace")
        shifted ==
            LET m == IF WillThrow(r0, ~r0.k.nothrowMove) THEN Throw(r0, "move")
                     ELSE [Passed(r0, ~r0.k.nothrowMove) EXCEPT
                              !.data = Put(Put(r0.data, r0.size, ReadVal(r0, "data", r0.size - 1)),
                                           r0.size - 1,
                                           AfterMove(r0, ReadVal(r0, "data", r0.size - 1))),
                              !.live = @ + 1,
                              !.ub = @ \/ ReadUB(r0, "data", r0.size - 1)]
                b == MoveBackward(m, d, r0.size, r0.size + 1)
                c == IF b.thrown /\ ~m.thrown
                     THEN DestroyN(b, "data", r0.size, 1)   \* catch (...) { ...; throw; }
                     ELSE b
            IN  Destroy(c, "data", d, 1)
        r1 == IF r0.size # 0 THEN shifted ELSE r0
    IN  PlaceNew(r1, "data", d, v)

\* iterator Emplace(const_iterator pos, Args&&... args); d = pos - begin()
Emplace(r, d, v) ==
    LET r1 == IF r.size = Capacity(r) THEN EmplaceGrow(r, d, v)
                                      ELSE EmplaceInPlace(r, d, v)
    IN  IncSize(r1)

\* (mutant) the tail is shifted from pos instead of pos + 1
EraseShiftsFromPos(r, d) ==
    LET r1 == IF d + 1 > r.size THEN [r EXCEPT !.ub = TRUE]
              ELSE MoveRange(r, d, r.size, d)
        r2 == PopBack(r1)
    IN  IF r2.thrown THEN r2 ELSE [r2 EXCEPT !.ret = [a |-> r2.addr, i |-> d]]

\* iterator Erase(const_iterator pos); d = pos - cbegin(), and the assert
\* admits d = size, where the range [d + 1, size) handed to std::move is
\* not a valid range
Erase(r, d) ==
    LET r1 == IF d + 1 > r.size THEN [r EXCEPT !.ub = TRUE]
              ELSE MoveRange(r, d + 1, r.size, d)
        r2 == PopBack(r1)
    IN  IF r2.thrown THEN r2 ELSE [r2 EXCEPT !.ret = [a |-> r2.addr, i |-> d]]

\* ~Vector(): destroy_n, then ~RawMemory of data_
Destructor(r) ==
    LET r1 == DestroyN(r, "data", 0, r.size)
    IN  [r1 EXCEPT !.lost = @ + LiveCells(r1.data), !.data = <<>>,
                   !.addr = NullAddr, !.size = 0]

\* explicit Vector(size_t size)
SizedConstructor(r, n) ==
    LET r1 == SwapBuffers(Allocate(r, n))
        r2 == UninitializedValueConstructN(r1, 0, n)
    IN  IF r2.thrown
        THEN [r2 EXCEPT !.lost = @ + LiveCells(r2.data), !.data = <<>>, !.addr = NullAddr]
        ELSE [r2 EXCEPT !.size = n]

\* T& operator[](size_t index), and the caller's assignment through it
AssignAt(r, i, v) ==
    [r EXCEPT !.data = Put(r.data, i, v), !.ub = @ \/ ReadUB(r, "data", i)]

\* ------------------------------------- operations that take another Vector
\* The cells other.data_ points at: a block is known by its address.
OtherBuf(r) ==
    IF r.other.addr # NullAddr /\ r.other.addr = r.addr THEN r.data ELSE r.other.data
OtherVal(r, i) == IF Get(OtherBuf(r), i) = RAW THEN r.g ELSE Get(OtherBuf(r), i)
OtherUB(r, i) == Get(OtherBuf(r), i) = RAW

\* std::uninitialized_copy_n(other.data_ + first, n, b + first); j cells
\* are done
RECURSIVE CopyFromOther(_, _, _, _, _)
CopyFromOther(r, b, first, n, j) ==
    IF r.thrown \/ j >= n THEN r
    ELSE IF WillThrow(r, TRUE) THEN Throw(DestroyN(r, b, first, j), "copy")
    ELSE CopyFromOther(
             [SetBuf(Passed(r, TRUE), b, Put(Buf(r, b), first + j, OtherVal(r, first + j)))
                 EXCEPT !.live = @ + 1, !.ub = @ \/ OtherUB(r, first + j)],
             b, first, n, j + 1)

\* std::copy(other.data_, other.data_ + n, data_): copy assignments onto
\* live cells, j of them done; one that throws leaves the rest as it was
RECURSIVE CopyAssignFrom(_, _, _)
CopyAssignFrom(r, n, j) ==
    IF r.thrown \/ j >= n THEN r
    ELSE IF WillThrow(r, TRUE) THEN Throw(r, "assign")
    ELSE CopyAssignFrom(
             [Passed(r, TRUE) EXCEPT !.data = Put(r.data, j, OtherVal(r, j)),
                                     !.ub = @ \/ OtherUB(r, j) \/ ReadUB(r, "data", j)],
             n, j + 1)

\* Vector(const Vector& other) up to its last copy, the new Vector's data_
\* being the local buffer
CopyOfOther(r) ==
    CopyFromOther(Allocate(r, r.other.size), "tmp", 0, r.other.size, 0)

\* (mutant) the new Vector takes the source's pointer, capacity and size
CopyConstructorShares(r) ==
    [r EXCEPT !.data = r.other.data, !.addr = r.other.addr, !.size = r.other.size]

\* explicit Vector(const Vector& other), *this being the new object
CopyConstructor(r) ==
    LET c == CopyOfOther(r)
    IN  IF c.thrown THEN Release(c)
        ELSE [Release(SwapBuffers(c)) EXCEPT !.size = r.other.size]

\* void Swap(Vector& other) noexcept
Swap(r) ==
    [r EXCEPT !.data = r.other.data, !.addr = r.other.addr, !.size = r.other.size,
              !.other = Members(r.data, r.addr, r.size)]

\* (mutant) the new Vector takes the source's members, the source keeps them
MoveConstructorKeepsSource(r) ==
    [r EXCEPT !.data = r.other.data, !.addr = r.other.addr, !.size = r.other.size]

\* explicit Vector(Vector&& other), *this being the new, empty object
MoveConstructor(r) == Swap(r)

\* (mutant) the in-place branch is taken by size instead of capacity
CopyAssignmentBySize(r, self) ==
    LET n == r.other.size
        swapped ==
            LET c == CopyOfOther(OnPath(r, "realloc"))
                s == [SwapBuffers(c) EXCEPT !.size = n]
                d == DestroyN(s, "tmp", 0, r.size)
            IN  IF c.thrown THEN Release(c) ELSE Release(d)
        r0 == OnPath(r, "inplace")
        e == Destroy(CopyAssignFrom(r0, n, 0), "data", n, r.size - n)
    IN  IF self THEN r
        ELSE IF n > r.size THEN swapped
        ELSE IF e.thrown THEN e ELSE [e EXCEPT !.size = n]

\* the copy assignment from a Vector that is not *this
CopyAssignDistinct(r) ==
    LET n == r.other.size
        swapped ==
            LET c == CopyOfOther(OnPath(r, "realloc"))              \* Vector other_copy(other)
                s == [SwapBuffers(c) EXCEPT !.size = n]             \* this->Swap(other_copy)
                d == DestroyN(s, "tmp", 0, r.size)                  \* ~other_copy
            IN  IF c.thrown THEN Release(c) ELSE Release(d)
        r0 == OnPath(r, "inplace")
        shrunk == Destroy(CopyAssignFrom(r0, n, 0), "data", n, r.size - n)
        grown == CopyFromOther(CopyAssignFrom(r0, r.size, 0), "data", r.size, n - r.size, 0)
        e == IF n < r.size THEN shrunk ELSE grown
    IN  IF n > Capacity(r) THEN swapped
        ELSE IF e.thrown THEN e ELSE [e EXCEPT !.size = n]

\* (mutant) the copy assignment makes no self-check
CopyAssignmentUnchecked(r, self) == CopyAssignDistinct(r)

\* Vector& operator=(const Vector& other); self: this == &other
CopyAssignment(r, self) == IF self THEN r ELSE CopyAssignDistinct(r)

\* Vector& operator=(Vector&& other); self: this == &other
MoveAssignment(r, self) == IF self THEN r ELSE Swap(r)
\* ---------------------------------------------------------------- actions
\* live objects that are in no cell of a Vector's data_
Leak == live - LiveCells(data) - LiveCells(other.data)

\* a cell of [0, size) is raw: only then can a call read a raw cell, and
\* the value it gets is any value
Corrupt == \E i \in 0..(size - 1) : Get(data, i) = RAW
Garbage == IF Corrupt THEN Val ELSE {0}

Entry(c) == Run(kind, data, addr, size, live, c.fc, c.g)

\* The number of throwing-capable steps of a call that runs to its end:
\* an allocation, each construction from arguments or by value, each copy,
\* and each move of a type whose move may throw.
MoveSteps(n) == IF kind.nothrowMove \/ n < 0 THEN 0 ELSE n
ReserveSteps(n) == IF n <= Len(data) THEN 0 ELSE 1 + MoveSteps(size)
ResizeSteps(n) == ReserveSteps(n) + Max(0, n - size)
EmplaceBackSteps == IF size = Len(data) THEN 2 + MoveSteps(size) ELSE 1
EmplaceSteps(d) ==
    IF size = Len(data) THEN 2 + MoveSteps(size)
    ELSE IF size = 0 THEN 1 ELSE MoveSteps(1 + size - d) + 1
EraseSteps(d) == MoveSteps(size - d - 1)
SizedSteps(n) == IF n = 0 THEN 0 ELSE 1 + n

\* the inputs of a call: its arguments (pos, val, n; -1 for none), which
\* throwing-capable step throws (fc, 0: none), the value an undefined read
\* yields (g)
Inputs(ps, vs, ns, steps) ==
    [pos : ps, val : vs, n : ns, fc : 0..steps, g : Garbage]

\* an insert is made only while the capacity after it fits the bound
Fits(cb) == IF size = Len(data) THEN GrowCapacity(size) <= cb ELSE Len(data) <= cb

\* the calls of each operation that are made in the current state, with
\* capacities up to cb and values vs
ReserveCalls(cb) == {c \in Inputs({-1}, {-1}, 0..cb, size + 1) : c.fc <= ReserveSteps(c.n)}
ResizeCalls(cb) ==
    {c \in Inputs({-1}, {-1}, 0..cb, Max(size, cb) + 1) : c.fc <= ResizeSteps(c.n)}
PopBackCalls == Inputs({-1}, {-1}, {-1}, 0)
EmplaceBackCalls(cb, vs) ==
    IF Fits(cb) THEN Inputs({-1}, vs, {-1}, EmplaceBackSteps) ELSE {}
\* assert(pos >= begin() && pos <= end())
EmplaceCalls(cb, vs) ==
    IF Fits(cb) THEN {c \in Inputs(0..size, vs, {-1}, size + 2) : c.fc <= EmplaceSteps(c.pos)}
    ELSE {}
\* assert(pos >= cbegin() && pos <= cend())
EraseCalls == {c \in Inputs(0..size, {-1}, {-1}, size) : c.fc <= EraseSteps(c.pos)}
SizedCalls(cb) == {c \in Inputs({-1}, {-1}, 0..cb, cb + 1) : c.fc <= SizedSteps(c.n)}

ReserveOf(c) == Reserve(Entry(c), c.n)
ResizeOf(c) == Resize(Entry(c), c.n)
PopBackOf(c) == PopBack(Entry(c))
\* void PushBack(const T& value) and void PushBack(T&& value)
PushBack(r, v) == EmplaceBack(r, v)

\* iterator Insert(const_iterator pos, const T& value) and (.., T&& value)
Insert(r, d, v) == Emplace(r, d, v)

PushBackOf(c) == PushBack(Entry(c), c.val)
EmplaceBackOf(c) == EmplaceBack(Entry(c), c.val)
EmplaceOf(c) == Emplace(Entry(c), c.pos, c.val)
InsertOf(c) == Insert(Entry(c), c.pos, c.val)
EraseOf(c) == Erase(Entry(c), c.pos)
DestructorOf(c) == Destructor(Entry(c))
SizedConstructorOf(c) == SizedConstructor(Entry(c), c.n)

\* how a call ended: "ok", or the step that threw
Outcome(r) == IF r.thrown THEN r.failed ELSE "ok"

\* the record of a call; pos is the offset of an Erase (-1 otherwise)
Call(r, op, c) ==
    [op |-> op, pos |-> IF op = "Erase" THEN c.pos ELSE -1,
     outcome |-> Outcome(r), path |-> r.path]

\* The state after the call.  A call that executed undefined behaviour sets
\* ub, and ends either as its remaining steps leave it or aborted.
Commit(r, op, c) ==
    /\ ub' = r.ub
    /\ \/ /\ data' = r.data
          /\ addr' = IF r.addr = NullAddr THEN NullAddr ELSE DataAddr
          /\ size' = r.size
          /\ live' = r.live
       \/ /\ r.ub
          /\ UNCHANGED <<data, addr, size, live>>
    /\ last' = Call(r, op, c)
    /\ s1' = (s1 /\ op = "PushBack" /\ ~r.thrown /\ ~r.ub /\ c.val = size)
    /\ UNCHANGED <<kind, other, raw, blocks>>

\* Calls are made on a live Vector, before any undefined behaviour.  A
\* Vector with a raw cell below size_ is followed no further than its
\* destruction; neither is one that has leaked an object, as the counter
\* live can then never come back to its starting value.
Usable == alive /\ ~ub /\ ~Corrupt /\ Leak = 0

DoReserve(cb) ==
    \E c \in ReserveCalls(cb) :
        Usable /\ Commit(ReserveOf(c), "Reserve", c) /\ UNCHANGED alive

DoResize(cb) ==
    \E c \in ResizeCalls(cb) :
        Usable /\ Commit(ResizeOf(c), "Resize", c) /\ UNCHANGED alive

DoPopBack ==
    \E c \in PopBackCalls :
        Usable /\ Commit(PopBackOf(c), "PopBack", c) /\ UNCHANGED alive

DoPushBack(cb, vs) ==
    \E c \in EmplaceBackCalls(cb, vs) :
        Usable /\ Commit(PushBackOf(c), "PushBack", c) /\ UNCHANGED alive

DoEmplaceBack(cb, vs) ==
    \E c \in EmplaceBackCalls(cb, vs) :
        Usable /\ Commit(EmplaceBackOf(c), "EmplaceBack", c) /\ UNCHANGED alive

DoEmplace(cb, vs) ==
    \E c \in EmplaceCalls(cb, vs) :
        Usable /\ Commit(EmplaceOf(c), "Emplace", c) /\ UNCHANGED alive

DoInsert(cb, vs) ==
    \E c \in EmplaceCalls(cb, vs) :
        Usable /\ Commit(InsertOf(c), "Insert", c) /\ UNCHANGED alive

DoErase ==
    \E c \in EraseCalls :
        Usable /\ Commit(EraseOf(c), "Erase", c) /\ UNCHANGED alive

DoDestructor ==
    \E c \in PopBackCalls :
        alive /\ ~ub /\ Commit(DestructorOf(c), "~Vector", c) /\ alive' = FALSE

\* Vector() = default
DoDefaultConstructor ==
    \E c \in PopBackCalls :
        ~alive /\ ~ub /\ live = 0 /\ Commit(Entry(c), "Vector", c) /\ alive' = TRUE

DoSizedConstructor(cb) ==
    \E c \in SizedCalls(cb) :
        /\ ~alive /\ ~ub /\ live = 0
        /\ Commit(SizedConstructorOf(c), "Vector(n)", c)
        /\ alive' = ~SizedConstructorOf(c).thrown

\* ------------------------------------------------ RawMemory on its own
\* RawMemory objects o \in Obj with members buffer_ (ptr) and capacity_
\* (cap); the heap hands out the addresses of Addr, each once.  The memory
\* record m holds the objects, the blocks and whether a call was undefined.
Obj == 1..NumObj
Addr == 1..NumBlocks
NoObject == [alive |-> FALSE, ptr |-> NullAddr, cap |-> 0]
Mem == [raw |-> raw, blocks |-> blocks, ub |-> ub]

Unallocated(m) == {a \in Addr : ~m.blocks[a].allocated}
\* the address operator new returns next
NextBlock(m) == CHOOSE a \in Unallocated(m) : \A b \in Unallocated(m) : a <= b

\* static void Deallocate(T* buf): operator delete; of nullptr a no-op, of a
\* block already deleted undefined
Deallocate(m, p) ==
    IF p = NullAddr THEN m
    ELSE [m EXCEPT !.blocks[p].freed = @ + 1,
                   !.ub = @ \/ m.blocks[p].freed > 0 \/ ~m.blocks[p].allocated]

\* explicit RawMemory(size_t capacity), with Allocate
RawMemoryConstruct(m, o, n) ==
    IF n = 0 THEN [m EXCEPT !.raw[o] = [alive |-> TRUE, ptr |-> NullAddr, cap |-> 0]]
    ELSE [m EXCEPT !.raw[o] = [alive |-> TRUE, ptr |-> NextBlock(m), cap |-> n],
                   !.blocks[NextBlock(m)].allocated = TRUE]

\* RawMemory(RawMemory&& other)
RawMemoryMoveConstruct(m, o, src) ==
    [m EXCEPT !.raw[o] = [alive |-> TRUE, ptr |-> m.raw[src].ptr, cap |-> m.raw[src].cap],
              !.raw[src].cap = 0,
              !.raw[src].ptr = NullAddr]

\* ~RawMemory()
RawMemoryDestroy(m, o) ==
    [Deallocate(m, m.raw[o].ptr) EXCEPT !.raw[o].alive = FALSE]

\* void Swap(RawMemory& other) noexcept
RawMemorySwap(m, o, p) ==
    [m EXCEPT !.raw[o].ptr = m.raw[p].ptr, !.raw[o].cap = m.raw[p].cap,
              !.raw[p].ptr = m.raw[o].ptr, !.raw[p].cap = m.raw[o].cap]

\* RawMemory& operator=(RawMemory&& other)
RawMemoryMoveAssign(m, o, src) ==
    IF o = src THEN m
    ELSE LET m1 == Deallocate(m, m.raw[o].ptr)
             m2 == [m1 EXCEPT !.raw[o].cap = 0]
         IN  RawMemorySwap(m2, o, src)

Living == {o \in Obj : raw[o].alive}

CommitRaw(m) ==
    /\ raw' = m.raw
    /\ blocks' = m.blocks
    /\ ub' = m.ub
    /\ UNCHANGED <<kind, alive, data, addr, size, live, s1, last, other>>

DoRawMemoryConstruct ==
    \E o \in Obj \ Living, n \in 0..RawCap :
        ~ub /\ (n # 0 => Unallocated(Mem) # {}) /\ CommitRaw(RawMemoryConstruct(Mem, o, n))

DoRawMemoryMoveConstruct ==
    \E o \in Obj \ Living, src \in Living :
        ~ub /\ CommitRaw(RawMemoryMoveConstruct(Mem, o, src))

DoRawMemoryMoveAssign ==
    \E o \in Living, src \in Living :
        ~ub /\ CommitRaw(RawMemoryMoveAssign(Mem, o, src))

DoRawMemorySwap ==
    \E o \in Living, p \in Living :
        ~ub /\ CommitRaw(RawMemorySwap(Mem, o, p))

DoRawMemoryDestroy ==
    \E o \in Living :
        ~ub /\ CommitRaw(RawMemoryDestroy(Mem, o))

\* -------------------------------------------------- calls on two Vectors
ThisMembers == Members(data, addr, size)
OtherMembers == Members(other.data, other.addr, other.size)

\* The run record at the entry of a call: on *this with the second Vector
\* as the argument, on *this with itself as the argument, on a new object
\* with *this as the argument, on the second Vector with *this as the
\* argument.
EntryWith(c) == [Entry(c) EXCEPT !.other = OtherMembers]
EntrySelf(c) == [Entry(c) EXCEPT !.other = ThisMembers]
EntryNew(c) == [Run(kind, <<>>, NullAddr, 0, live, c.fc, c.g) EXCEPT !.other = ThisMembers]
EntryOther(c) ==
    [Run(kind, other.data, other.addr, other.size, live, c.fc, c.g) EXCEPT
        !.other = ThisMembers]


NoArgCalls(steps) == Inputs({-1}, {-1}, {-1}, steps)
\* an allocation unless the source is empty, and a copy per element
CopyConstructorCalls == NoArgCalls(IF size = 0 THEN 0 ELSE 1 + size)
\* an allocation when the source's size exceeds the capacity, and a copy
\* assignment or a copy construction per element of the source
CopyAssignmentCalls ==
    NoArgCalls(IF other.size > Len(data) THEN 1 + other.size ELSE other.size)
\* a self-assignment, with the step armed that would throw if it ran
SelfAssignmentCalls == NoArgCalls(size)
\* assert(index < size_)
AssignAtCalls(vs) == Inputs(0..(size - 1), vs, {-1}, 0)
\* the calls made on the second Vector
OtherFits(cb) ==
    IF other.size = Len(other.data) THEN GrowCapacity(other.size) <= cb
    ELSE Len(other.data) <= cb
OtherPushBackCalls(cb, vs) == IF OtherFits(cb) THEN Inputs({-1}, vs, {-1}, 0) ELSE {}
OtherAtCalls(vs) == Inputs(0..(other.size - 1), vs, {-1}, 0)
OtherEraseCalls == Inputs(0..(other.size - 1), {-1}, {-1}, 0)

\* the references to the elements of *this
Refs == {Ref(i) : i \in 0..(size - 1)}

CopyConstructorOf(c) == CopyConstructor(EntryNew(c))
MoveConstructorOf(c) == MoveConstructor(EntryNew(c))
CopyAssignmentOf(c) == CopyAssignment(EntryWith(c), FALSE)
MoveAssignmentOf(c) == MoveAssignment(EntryWith(c), FALSE)
SelfCopyAssignmentOf(c) == CopyAssignment(EntrySelf(c), TRUE)
SelfMoveAssignmentOf(c) == MoveAssignment(EntrySelf(c), TRUE)
AssignAtOf(c) == AssignAt(Entry(c), c.pos, c.val)
OtherPushBackOf(c) == PushBack(EntryOther(c), c.val)
OtherEraseOf(c) == Erase(EntryOther(c), c.pos)
OtherAssignAtOf(c) == AssignAt(EntryOther(c), c.pos, c.val)

\* the address of a Vector's block after a call, up to renaming
Renamed(a, name) == IF a = NullAddr THEN NullAddr ELSE name

\* The state after a call that involves both Vectors; onThis: the call was
\* made on *this (otherwise on the second Vector, or on a new object that
\* becomes it), exists: the second Vector exists after the call.
CommitPair(r, op, c, onThis, exists) ==
    LET mine == Members(r.data, r.addr, r.size)
        a == IF onThis THEN mine ELSE r.other
        b == IF onThis THEN r.other ELSE mine
    IN  /\ ub' = r.ub
        /\ \/ /\ data' = a.data
              /\ addr' = Renamed(a.addr, DataAddr)
              /\ size' = a.size
              /\ live' = r.live
              /\ other' = [alive |-> exists, data |-> b.data, size |-> b.size,
                           addr |-> IF b.addr = a.addr THEN Renamed(b.addr, DataAddr)
                                    ELSE Renamed(b.addr, OtherAddr)]
           \/ /\ r.ub
              /\ UNCHANGED <<data, addr, size, live, other>>
        /\ last' = Call(r, op, c)
        /\ s1' = FALSE
        /\ UNCHANGED <<kind, raw, blocks>>

Both == Usable /\ other.alive

DoCopyConstructor ==
    \E c \in CopyConstructorCalls :
        /\ Usable /\ ~other.alive /\ kind.copyable
        /\ CommitPair(CopyConstructorOf(c), "Vector(const Vector&)", c, FALSE,
                      ~CopyConstructorOf(c).thrown)
        /\ UNCHANGED alive

DoMoveConstructor ==
    \E c \in NoArgCalls(0) :
        /\ Usable /\ ~other.alive
        /\ CommitPair(MoveConstructorOf(c), "Vector(Vector&&)", c, FALSE, TRUE)
        /\ UNCHANGED alive

DoCopyAssignment ==
    \E c \in CopyAssignmentCalls :
        /\ Both /\ kind.copyable
        /\ CommitPair(CopyAssignmentOf(c), "operator=(const Vector&)", c, TRUE, TRUE)
        /\ UNCHANGED alive

DoMoveAssignment ==
    \E c \in NoArgCalls(0) :
        /\ Both
        /\ CommitPair(MoveAssignmentOf(c), "operator=(Vector&&)", c, TRUE, TRUE)
        /\ UNCHANGED alive

DoSelfCopyAssignment ==
    \E c \in SelfAssignmentCalls :
        /\ Usable /\ kind.copyable
        /\ Commit(SelfCopyAssignmentOf(c), "a = a", c)
        /\ UNCHANGED alive

DoSelfMoveAssignment ==
    \E c \in SelfAssignmentCalls :
        Usable /\ Commit(SelfMoveAssignmentOf(c), "a = move(a)", c) /\ UNCHANGED alive

DoSwap ==
    \E c \in NoArgCalls(0) :
        Both /\ CommitPair(Swap(EntryWith(c)), "Swap", c, TRUE, TRUE) /\ UNCHANGED alive

DoAssignAt(vs) ==
    \E c \in AssignAtCalls(vs) :
        Usable /\ Commit(AssignAtOf(c), "operator[]", c) /\ UNCHANGED alive

DoOtherPushBack(cb, vs) ==
    \E c \in OtherPushBackCalls(cb, vs) :
        Both /\ CommitPair(OtherPushBackOf(c), "PushBack", c, FALSE, TRUE) /\ UNCHANGED alive

DoOtherErase ==
    \E c \in OtherEraseCalls :
        Both /\ CommitPair(OtherEraseOf(c), "Erase", c, FALSE, TRUE) /\ UNCHANGED alive

DoOtherAssignAt(vs) ==
    \E c \in OtherAtCalls(vs) :
        Both /\ CommitPair(OtherAssignAtOf(c), "operator[]", c, FALSE, TRUE) /\ UNCHANGED alive

DoOtherDestructor ==
    \E c \in NoArgCalls(0) :
        /\ Both
        /\ CommitPair(Destructor(EntryOther(c)), "~Vector", c, FALSE, FALSE)
        /\ UNCHANGED alive

Init ==
    /\ kind \in Kinds
    /\ alive = TRUE
    /\ data = <<>>
    /\ addr = NullAddr
    /\ size = 0
    /\ live = 0
    /\ ub = FALSE
    /\ s1 = TRUE
    /\ last = [op |-> "Vector", pos |-> -1, outcome |-> "ok", path |-> "none"]
    /\ other = [alive |-> FALSE, data |-> <<>>, addr |-> NullAddr, size |-> 0]
    /\ raw = [o \in Obj |-> NoObject]
    /\ blocks = [a \in Addr |-> [allocated |-> FALSE, freed |-> 0]]

Next ==
    \/ DoReserve(MaxCap)
    \/ DoResize(MaxCap)
    \/ DoPopBack
    \/ DoPushBack(MaxCap, Val)
    \/ DoEmplaceBack(MaxCap, Val)
    \/ DoEmplace(MaxCap, Val)
    \/ DoInsert(MaxCap, Val)
    \/ DoErase
    \/ DoDestructor
    \/ DoDefaultConstructor
    \/ DoSizedConstructor(MaxCap)

Spec == Init /\ [][Next]_vars

\* The growth scenario: the appended value is the index it gets, with
\* capacities up to S1Cap; positional inserts while the capacity is small.
NextGrowth ==
    \/ DoPushBack(S1Cap, {size})
    \/ DoEmplaceBack(S1Cap, {size})
    \/ DoEmplace(MaxCap, {size})
    \/ DoInsert(MaxCap, {size})

SpecGrowth == Init /\ [][NextGrowth]_vars

\* Two Vectors, and calls whose argument is the other Vector or the Vector
\* itself, with capacities up to PairCap.  The elements written are the
\* value a value-construction gives and one value that differs from it.
TwoVals == {DefaultVal, MaxVal}

NextPair ==
    \/ DoCopyConstructor
    \/ DoMoveConstructor
    \/ DoCopyAssignment
    \/ DoMoveAssignment
    \/ DoSelfCopyAssignment
    \/ DoSelfMoveAssignment
    \/ DoSwap
    \/ DoOtherPushBack(PairCap, TwoVals)
    \/ DoOtherErase
    \/ DoOtherAssignAt(TwoVals)
    \/ DoOtherDestructor
    \/ DoAssignAt(TwoVals)
    \/ DoResize(PairCap)

SpecPair == Init /\ [][NextPair]_vars

\* One Vector, and inserts whose argument is a value or a reference to one
\* of the Vector's own elements, with capacities up to PairCap.
NextSelfRef ==
    \/ DoReserve(PairCap)
    \/ DoPopBack
    \/ DoAssignAt(Val)
    \/ DoPushBack(PairCap, Val \cup Refs)
    \/ DoEmplaceBack(PairCap, Val \cup Refs)
    \/ DoEmplace(PairCap, Val \cup Refs)
    \/ DoInsert(PairCap, Val \cup Refs)

SpecSelfRef == Init /\ [][NextSelfRef]_vars

\* RawMemory objects on their own.
NextRaw ==
    \/ DoRawMemoryConstruct
    \/ DoRawMemoryMoveConstruct
    \/ DoRawMemoryMoveAssign
    \/ DoRawMemorySwap
    \/ DoRawMemoryDestroy

SpecRaw == Init /\ [][NextRaw]_vars
\* ------------------------------------------------------------ the claims
\* The contract of a call is stated over every call the current state
\* makes: the run record r at the call's exit against the state at entry.

\* cells [0, size) live, cells [size, capacity) raw
WellFormed ==
    /\ 0 <= size /\ size <= Len(data)
    /\ \A i \in 0..(Len(data) - 1) : (i < size) <=> (Get(data, i) # RAW)

\* the first n cells of two buffers hold the same values
SameCells(a, b, n) == \A i \in 0..(n - 1) : Get(a, i) = Get(b, i)

\* the Vector is observably what it was at entry
Untouched(r) == r.data = data /\ r.size = size /\ r.addr = addr

CopyRelocated == kind.copyable /\ ~kind.nothrowMove

\* C1: at every boundary of the public interface, also after a call that
\* threw, 0 <= size <= capacity, the cells [0, size) are live and the cells
\* [size, capacity) are raw.
C1_VectorInvariant == (alive /\ ~ub) => WellFormed

\* what C2 says of a call c of Emplace or Insert that ended as r
Inserted(c, r) ==
    (Usable /\ ~r.thrown) =>
        /\ r.size = size + 1
        /\ Get(r.data, c.pos) = c.val
        /\ SameCells(r.data, data, c.pos)
        /\ \A i \in c.pos..(size - 1) : Get(r.data, i + 1) = Get(data, i)

\* C2: a returning Emplace/Insert at offset d, growing or in place, adds one
\* to size, puts v at d, keeps [0, d) and puts the former [d, old size) at
\* [d + 1, new size) with the same values, for every element type.
C2_EmplaceInserts ==
    \A c \in EmplaceCalls(MaxCap, Val) : Inserted(c, EmplaceOf(c)) /\ Inserted(c, InsertOf(c))

\* what C3 says of a reallocating call that ended as r, when its first
\* element copy is throwing-capable step number first
Strong(c, r, reallocates, first) ==
    /\ (Usable /\ reallocates /\ c.fc >= first) => r.failed = "copy"
    /\ (Usable /\ r.failed = "copy") => (r.thrown /\ Untouched(r))

\* C3: for a copy-constructible T whose move may throw, when the k-th
\* element copy of a reallocating Reserve, PushBack, EmplaceBack or Emplace
\* fails, the call throws and size, capacity, buffer address and every
\* element are what they were.
C3_StrongGuarantee ==
    CopyRelocated =>
        /\ \A c \in ReserveCalls(MaxCap) : Strong(c, ReserveOf(c), c.n > Len(data), 2)
        /\ \A c \in EmplaceBackCalls(MaxCap, Val) :
               /\ Strong(c, PushBackOf(c), size = Len(data), 3)
               /\ Strong(c, EmplaceBackOf(c), size = Len(data), 3)
        /\ \A c \in EmplaceCalls(MaxCap, Val) :
               /\ Strong(c, EmplaceOf(c), size = Len(data), 3)
               /\ Strong(c, InsertOf(c), size = Len(data), 3)

C3_Witness ==
    /\ CopyRelocated /\ kind.moveResets /\ alive /\ ~ub
    /\ last.op = "Emplace" /\ last.outcome = "copy" /\ last.path = "realloc"
    /\ size >= 2 /\ size = Len(data) /\ WellFormed

\* what C4 says of an in-place call of Emplace or Insert that ended as r
CtorFailureHarmless(r) ==
    (Usable /\ size < Len(data) /\ r.failed = "ctor") => (r.size = size /\ r.data = data)

\* C4: when the constructor of the new element throws on the in-place
\* branch of Emplace/Insert, size and every cell are what they were (so
\* cell size is still raw), for every size below capacity and every offset.
C4_InPlaceCtorFailure ==
    \A c \in EmplaceCalls(MaxCap, Val) :
        CtorFailureHarmless(EmplaceOf(c)) /\ CtorFailureHarmless(InsertOf(c))

\* C5: after any calls and then the destruction of the Vector, the
\* live-object counter is back at its starting value.
C5_LiveCounter == (~alive /\ ~ub) => live = 0

\* what C6 says of a call that ended as r
Cleaned(r) == (Usable /\ r.failed = "copy") => r.lost = 0

\* C6: when a copy of a copy-relocation fails, every cell constructed in
\* the fresh buffer is destroyed before the buffer is released: no live
\* cell is lost with it.
C6_FreshBufferCleaned ==
    CopyRelocated =>
        /\ \A c \in ReserveCalls(MaxCap) : Cleaned(ReserveOf(c))
        /\ \A c \in EmplaceBackCalls(MaxCap, Val) :
               Cleaned(PushBackOf(c)) /\ Cleaned(EmplaceBackOf(c))
        /\ \A c \in EmplaceCalls(MaxCap, Val) :
               Cleaned(EmplaceOf(c)) /\ Cleaned(InsertOf(c))

\* C7: Erase at offset d < size takes one from size, keeps capacity and
\* [0, d), puts the former [d + 1, old size) at [d, new size) in order and
\* returns the position of cell d, which is end() when d was the last index.
C7_EraseRemoves ==
    \A c \in EraseCalls :
        LET r == EraseOf(c)
        IN  (Usable /\ c.pos < size /\ ~r.thrown) =>
                /\ ~r.ub
                /\ r.size = size - 1
                /\ Len(r.data) = Len(data) /\ r.addr = addr
                /\ SameCells(r.data, data, c.pos)
                /\ \A i \in (c.pos + 1)..(size - 1) : Get(r.data, i - 1) = Get(data, i)
                /\ Get(r.data, size - 1) = RAW
                /\ r.ret = [a |-> r.addr, i |-> c.pos]
                /\ (c.pos = size - 1) => r.ret.i = r.size

C7_Witness ==
    /\ alive /\ ~ub /\ WellFormed /\ kind.moveResets
    /\ last.op = "Erase" /\ last.outcome = "ok"
    /\ last.pos >= 1 /\ last.pos + 2 <= size
    /\ \E i \in 0..(size - 1) : Get(data, i) # MovedFrom

\* what C8 says of a call c of PushBack or EmplaceBack that ended as r
Appended(c, r) ==
    (Usable /\ ~r.thrown) =>
        /\ r.size = size + 1
        /\ Get(r.data, size) = c.val
        /\ SameCells(r.data, data, size)
        /\ r.ret = [a |-> r.addr, i |-> size]

\* C8: a returning PushBack/EmplaceBack of x, growing or in place, adds
\* one to size, makes x the last element, keeps every earlier element, and
\* returns the cell at index old size of the buffer active after the call.
C8_EmplaceBackAppends ==
    \A c \in EmplaceBackCalls(MaxCap, Val) :
        Appended(c, PushBackOf(c)) /\ Appended(c, EmplaceBackOf(c))

C8_Witness ==
    /\ alive /\ ~ub /\ WellFormed /\ kind.moveResets
    /\ last.op = "PushBack" /\ last.outcome = "ok" /\ last.path = "realloc"
    /\ size = 3 /\ Len(data) = 4
    /\ \A i \in 0..(size - 1) : Get(data, i) # MovedFrom

\* C9: Reserve(n) keeps size and the elements in order; with n <= capacity
\* it keeps capacity and buffer address, otherwise the capacity becomes n;
\* either way capacity >= max(n, old capacity).
C9_ReserveKeeps ==
    \A c \in ReserveCalls(MaxCap) :
        LET r == ReserveOf(c)
        IN  (Usable /\ ~r.thrown) =>
                /\ r.size = size
                /\ SameCells(r.data, data, size)
                /\ (c.n <= Len(data)) => (Len(r.data) = Len(data) /\ r.addr = addr)
                /\ (c.n > Len(data)) => Len(r.data) = c.n
                /\ Len(r.data) >= Max(c.n, Len(data))

C9_Witness ==
    /\ alive /\ ~ub /\ WellFormed /\ kind.moveResets
    /\ last.op = "Reserve" /\ last.outcome = "ok" /\ last.path = "realloc"
    /\ size >= 2 /\ Len(data) > size
    /\ \A i \in 0..(size - 1) : Get(data, i) # MovedFrom

\* the capacities of scenario S1 after 0, 1, ..., 10 calls of PushBack
S1Trace == <<0, 1, 2, 4, 4, 8, 8, 8, 8, 16, 16>>

\* the capacity after a call is the capacity before it unless the call was
\* made with size = capacity, and then it is max(1, 2 * capacity)
GrowsByDoubling(r) ==
    /\ Len(r.data) # Len(data) => (size = Len(data) /\ Len(r.data) = Max(1, 2 * Len(data)))
    /\ (size = Len(data) /\ ~r.thrown) => Len(r.data) = Max(1, 2 * Len(data))

\* C10: PushBack, EmplaceBack, Emplace and Insert change the capacity only
\* when size = capacity, and then to max(1, 2 * capacity); so ten PushBack(i)
\* on a default-constructed Vector give the capacities 0, 1, 2, 4, 4, 8, 8,
\* 8, 8, 16, 16, and s[i] = i.
C10_GrowthSchedule ==
    /\ \A c \in EmplaceBackCalls(S1Cap, {size}) :
           Usable => (GrowsByDoubling(PushBackOf(c)) /\ GrowsByDoubling(EmplaceBackOf(c)))
    /\ \A c \in EmplaceCalls(MaxCap, {size}) :
           Usable => (GrowsByDoubling(EmplaceOf(c)) /\ GrowsByDoubling(InsertOf(c)))
    /\ (s1 /\ size < Len(S1Trace)) =>
           /\ Len(data) = S1Trace[size + 1]
           /\ \A i \in 0..(size - 1) : Get(data, i) = i

C10_Witness == s1 /\ size = 10 /\ Len(data) = 16 /\ last.op = "PushBack"

\* exactly the cells [0, n) of a buffer are live
LiveUpTo(buf, n) == \A i \in 0..(Len(buf) - 1) : (i < n) <=> (Get(buf, i) # RAW)

\* C11: after a returning copy assignment a = b of distinct Vectors, a has
\* b's size and b's elements, b is what it was, exactly the cells
\* [0, b.size) of a are live; with b.size <= a's capacity a keeps capacity
\* and buffer (also when it shrinks), otherwise a's capacity is b.size.
C11_CopyAssignment ==
    \A c \in CopyAssignmentCalls :
        LET r == CopyAssignmentOf(c)
        IN  (Both /\ kind.copyable /\ ~r.thrown) =>
                /\ ~r.ub
                /\ r.size = other.size
                /\ SameCells(r.data, other.data, other.size)
                /\ r.other = OtherMembers
                /\ LiveUpTo(r.data, other.size)
                /\ r.live = live + other.size - size /\ r.lost = 0
                /\ (other.size <= Len(data)) => (Len(r.data) = Len(data) /\ r.addr = addr)
                /\ (other.size > Len(data)) => Len(r.data) = other.size

C11_Witness ==
    /\ Both /\ last.op = "operator=(const Vector&)" /\ last.outcome = "ok"
    /\ last.path = "inplace" /\ size = 1 /\ Len(data) = 2
    /\ Get(data, 0) # DefaultVal /\ SameCells(data, other.data, size)

\* The cells seen through the pointer x after a call that ended as r and
\* was made on the Vector whose block was at address at: the cells the call
\* left there, none when the call deallocated that block, and the cells
\* kept of a block the call had no pointer to.
CellsAt(x, r, at, kept) ==
    IF x # NullAddr /\ x = r.addr THEN r.data
    ELSE IF x # NullAddr /\ x = at THEN <<>>
    ELSE kept

\* a call on *this that ended as r leaves the second Vector what it was
KeepsOther(r) == CellsAt(other.addr, r, addr, other.data) = other.data
\* a call on the second Vector that ended as r leaves *this what it was
KeepsThis(r) == r.other = ThisMembers /\ CellsAt(addr, r, other.addr, data) = data

\* what C12 says of a copy construction from *this that ended as r
CopyConstructed(r) ==
    (Usable /\ ~other.alive /\ kind.copyable /\ ~r.thrown) =>
        /\ ~r.ub
        /\ r.size = size /\ Len(r.data) = size
        /\ SameCells(r.data, data, size) /\ LiveUpTo(r.data, size)
        /\ size > 0 => (r.addr # NullAddr /\ r.addr # addr)
        /\ r.other = ThisMembers

\* C12: b(a) has a's size and elements, capacity a.size and a buffer of its
\* own, and leaves a as it was; of two Vectors the buffers are distinct
\* blocks, and no call on one (element write, PushBack, Insert, Erase,
\* Resize) changes size, capacity or elements of the other.
C12_CopyIndependent ==
    /\ \A c \in CopyConstructorCalls : CopyConstructed(CopyConstructorOf(c))
    /\ Both =>
          /\ addr # NullAddr => addr # other.addr
          /\ \A c \in AssignAtCalls(Val) : KeepsOther(AssignAtOf(c))
          /\ \A c \in EmplaceBackCalls(PairCap, Val) : KeepsOther(PushBackOf(c))
          /\ \A c \in EmplaceCalls(PairCap, Val) : KeepsOther(InsertOf(c))
          /\ \A c \in EraseCalls : KeepsOther(EraseOf(c))
          /\ \A c \in ResizeCalls(PairCap) : KeepsOther(ResizeOf(c))
          /\ \A c \in OtherAtCalls(Val) : KeepsThis(OtherAssignAtOf(c))
          /\ \A c \in OtherPushBackCalls(PairCap, Val) : KeepsThis(OtherPushBackOf(c))
          /\ \A c \in OtherEraseCalls : KeepsThis(OtherEraseOf(c))

C12_Witness ==
    /\ Both /\ last.op = "Vector(const Vector&)" /\ last.outcome = "ok"
    /\ size = 1 /\ Len(data) = 2 /\ Get(data, 0) # DefaultVal
    /\ other.size = 1 /\ Len(other.data) = 1 /\ SameCells(data, other.data, size)
    /\ other.addr # addr

\* C13: b(move(a)) gives b the size, capacity, buffer and elements a had,
\* constructs and destroys no element (an armed construction does not
\* throw, the live counter stays), and leaves a with size 0, capacity 0.
C13_MoveConstruction ==
    \A c \in NoArgCalls(1) :
        LET r == MoveConstructorOf(c)
        IN  (Usable /\ ~other.alive) =>
                /\ ~r.thrown /\ ~r.ub
                /\ r.data = data /\ r.addr = addr /\ r.size = size
                /\ r.other = Empty
                /\ r.live = live /\ r.fc = c.fc /\ r.lost = 0

C13_Witness ==
    /\ Both /\ last.op = "Vector(Vector&&)" /\ last.outcome = "ok"
    /\ size = 0 /\ Len(data) = 0 /\ addr = NullAddr
    /\ other.size = 1 /\ Len(other.data) = 2 /\ Get(other.data, 0) # MovedFrom

\* C14: a returning Resize(n) sets size to n, keeps the first
\* min(old size, n) elements, makes every element of [old size, n) a
\* value-constructed one, destroys exactly the cells [n, old size), and
\* leaves the capacity max(old capacity, n).
C14_Resize ==
    \A c \in ResizeCalls(MaxCap) :
        LET r == ResizeOf(c)
        IN  (Usable /\ ~r.thrown) =>
                /\ ~r.ub /\ r.lost = 0
                /\ r.size = c.n
                /\ SameCells(r.data, data, IF size < c.n THEN size ELSE c.n)
                /\ \A i \in size..(c.n - 1) : Get(r.data, i) = DefaultVal
                /\ \A i \in c.n..(size - 1) : Get(r.data, i) = RAW
                /\ LiveUpTo(r.data, c.n)
                /\ r.live = live + c.n - size
                /\ Len(r.data) = Max(Len(data), c.n)

C14_Witness ==
    /\ alive /\ ~ub /\ WellFormed /\ kind.moveResets
    /\ last.op = "Resize" /\ last.outcome = "ok" /\ last.path = "realloc"
    /\ size = 3 /\ Len(data) = 3
    /\ Get(data, 0) # DefaultVal /\ Get(data, 2) = DefaultVal

\* what C15 says of a self-assignment c that ended as r: the run record is
\* the one at entry, so size, capacity, buffer and elements are the same,
\* the live counter is the same, and no construction or assignment ran
\* (the armed step was not reached)
SelfAssigned(c, r) ==
    Usable => ([r EXCEPT !.path = "none"] = EntrySelf(c) /\ ~r.thrown /\ r.fc = c.fc)

\* C15: a = a and a = move(a) leave the Vector unchanged: same size,
\* capacity, buffer and elements, and no element is constructed, assigned
\* or destroyed.
C15_SelfAssignment ==
    \A c \in SelfAssignmentCalls :
        /\ kind.copyable => SelfAssigned(c, SelfCopyAssignmentOf(c))
        /\ SelfAssigned(c, SelfMoveAssignmentOf(c))

C15_Witness ==
    /\ Usable /\ last.op = "a = a" /\ last.outcome = "ok"
    /\ size = 2 /\ Len(data) = 2 /\ Get(data, 0) # Get(data, 1)

\* what C16 says of an in-place call c of Emplace or Insert that ended as
\* r; the move assignments of the shift are the throwing-capable steps
\* 2 .. 1 + size - d of the call
ShiftFailure(c, r) ==
    (Usable /\ 0 < size /\ size < Len(data)) =>
        /\ (~kind.nothrowMove /\ 2 <= c.fc /\ c.fc <= 1 + size - c.pos) => r.failed = "assign"
        /\ r.failed = "assign" =>
              /\ r.thrown /\ ~r.ub /\ r.lost = 0
              /\ r.size = size /\ Len(r.data) = Len(data) /\ r.addr = addr
              /\ Get(r.data, size) = RAW
              /\ LiveUpTo(r.data, size)
              /\ r.live = live
              /\ SameCells(r.data, data, c.pos)

\* C16: when a move assignment of the right shift fails on the in-place
\* branch of Emplace/Insert with size > 0, the cell constructed at index
\* size is destroyed, the failure propagates, size is what it was, every
\* cell of [0, size) is live and the cells [0, d) keep their values.
C16_ShiftFailure ==
    \A c \in EmplaceCalls(MaxCap, Val) :
        ShiftFailure(c, EmplaceOf(c)) /\ ShiftFailure(c, InsertOf(c))

C16_Witness ==
    /\ alive /\ ~ub /\ WellFormed /\ kind.moveResets
    /\ last.op = "Insert" /\ last.outcome = "assign" /\ last.path = "inplace"
    /\ size = 3 /\ Len(data) = 4
    /\ Get(data, 0) # MovedFrom /\ Get(data, 2) = MovedFrom

\* the source of a move is left in the null state
SourceNull(m, src) == m.raw[src].ptr = NullAddr /\ m.raw[src].cap = 0

\* C17: after any constructions with a capacity, move constructions, move
\* assignments and Swaps, every RawMemory has buffer_ null exactly when
\* capacity_ is 0, the source of a move is left null with capacity 0, no
\* block is deallocated twice, and once every object is destroyed each
\* allocated block has been deallocated once.
C17_RawMemoryInvariant ==
    /\ ~ub
    /\ \A o \in Living : (raw[o].ptr = NullAddr) <=> (raw[o].cap = 0)
    /\ \A o \in Obj \ Living, src \in Living : SourceNull(RawMemoryMoveConstruct(Mem, o, src), src)
    /\ \A o \in Living : \A src \in Living \ {o} :
           SourceNull(RawMemoryMoveAssign(Mem, o, src), src)
    /\ \A a \in Addr : blocks[a].freed <= 1
    /\ Living = {} => \A a \in Addr : blocks[a].allocated => blocks[a].freed = 1

\* what C18 says of a call c whose argument is a reference to an element
\* of the Vector, that ended as r with the new element at index at
\* (Usable: at entry every cell of [0, size) holds a live element)
FromArgument(c, r, at) ==
    (Usable /\ kind.copyable /\ ~r.thrown) =>
        (~r.ub /\ Get(r.data, at) = Get(data, RefIndex(c.val)))

\* C18: PushBack(s[i]), Insert(begin() + d, s[i]) and Emplace(begin() + d,
\* s[i]) with i < size put at the end, or at offset d, the value s[i] had
\* before the call, on the reallocating and on the in-place path.
C18_SelfReference ==
    /\ \A c \in EmplaceBackCalls(PairCap, Refs) : FromArgument(c, PushBackOf(c), size)
    /\ \A c \in EmplaceCalls(PairCap, Refs) :
           FromArgument(c, InsertOf(c), c.pos) /\ FromArgument(c, EmplaceOf(c), c.pos)

\* C19: Erase(end()), offset d = size (also on an empty Vector), is stopped
\* by the precondition check: among the calls the assert admits, one with
\* d = size executes nothing undefined, removes no element and keeps size.
C19_EraseEndRejected ==
    \A c \in EraseCalls :
        LET r == EraseOf(c)
        IN  (Usable /\ c.pos = size) => (~r.ub /\ r.size = size /\ r.data = data)
====
